---- MODULE Spec2Model ----
(***************************************************************************)
(* Model of txt2png (src/txt2png.go, lines 1-169): one run of main.       *)
(* The text is a Go string, i.e. a sequence of bytes; `range` decodes it  *)
(* as UTF-8 and yields the BYTE offset of every rune.  The font library,  *)
(* the rasterizer and the file system are external: their outcomes are    *)
(* nondeterministic choices.                                               *)
(***************************************************************************)
EXTENDS Integers, Sequences, FiniteSets, TLC

\* ------------------------------------------------------------------ bounds
MaxLen == 3
MaxDim == 2
\* Characters the text is built from: 'A' (one byte in UTF-8) and U+00E9
\* (two bytes, C3 A9).
TextChars == {65, 233}

\* What a font may hold for one rune: no glyph (GlyphAdvance fails), a glyph
\* whose rasterization fails, a narrow glyph and a wide one.  advance is in
\* 26.6 fixed point: 100 is 1 whole pixel (1.5625 truncated), 192 is 3.
GlyphKinds ==
  {[ok |-> FALSE, advance |-> 0,   err |-> FALSE],
   [ok |-> TRUE,  advance |-> 100, err |-> TRUE],
   [ok |-> TRUE,  advance |-> 100, err |-> FALSE],
   [ok |-> TRUE,  advance |-> 192, err |-> FALSE]}

RECURSIVE SeqsUpTo(_, _)
SeqsUpTo(S, n) ==
  IF n = 0 THEN {<<>>}
  ELSE LET shorter == SeqsUpTo(S, n - 1)
       IN shorter \cup {Append(s, b) : s \in {t \in shorter : Len(t) = n - 1}, b \in S}

\* -slotwidth and -height are any int; the model takes -1, 0 and the positives.
Dims == -1 .. MaxDim

\* ------------------------------------------------------- Go integer helpers
\* Go's / on ints truncates toward zero.
GoDiv(a, b) ==
  IF a >= 0 THEN a \div b ELSE -((-a) \div b)

\* ------------------------------------------------------------ UTF-8 decode
RuneError == 65533

InRange(b, lo, hi) == lo <= b /\ b <= hi

\* Size announced by a lead byte (0 = invalid lead), utf8.first[].
LeadSize(b) ==
  IF b < 128 THEN 1
  ELSE IF InRange(b, 194, 223) THEN 2
  ELSE IF InRange(b, 224, 239) THEN 3
  ELSE IF InRange(b, 240, 244) THEN 4
  ELSE 0

\* Accepted range of the second byte, utf8.acceptRanges[].
AcceptLo(b) == IF b = 224 THEN 160 ELSE IF b = 240 THEN 144 ELSE 128
AcceptHi(b) == IF b = 237 THEN 159 ELSE IF b = 244 THEN 143 ELSE 191

IsCont(b) == InRange(b, 128, 191)

\* utf8.DecodeRuneInString on the suffix of s that starts at 1-based index k:
\* the rune and the number of bytes it occupies.
DecodeRune(s, k) ==
  LET n  == Len(s) - k + 1
      b0 == s[k]
      sz == LeadSize(b0)
      bad == [r |-> RuneError, size |-> 1]
  IN IF sz = 1 THEN [r |-> b0, size |-> 1]
     ELSE IF sz = 0 \/ n < sz THEN bad
     ELSE IF ~InRange(s[k + 1], AcceptLo(b0), AcceptHi(b0)) THEN bad
     ELSE IF sz = 2 THEN [r |-> (b0 % 32) * 64 + (s[k + 1] % 64), size |-> 2]
     ELSE IF ~IsCont(s[k + 2]) THEN bad
     ELSE IF sz = 3
          THEN [r |-> (b0 % 16) * 4096 + (s[k + 1] % 64) * 64 + (s[k + 2] % 64),
                size |-> 3]
     ELSE IF ~IsCont(s[k + 3]) THEN bad
     ELSE [r |-> (b0 % 8) * 262144 + (s[k + 1] % 64) * 4096
                 + (s[k + 2] % 64) * 64 + (s[k + 3] % 64),
           size |-> 4]

\* The pairs (i, r) that `for i, r := range s` yields from byte offset k-1 on:
\* i is the 0-based byte offset of the rune.
RECURSIVE RangeFrom(_, _)
RangeFrom(s, k) ==
  IF k > Len(s) THEN <<>>
  ELSE LET d == DecodeRune(s, k)
       IN <<[i |-> k - 1, r |-> d.r]>> \o RangeFrom(s, k + d.size)

RangeOver(s) == RangeFrom(s, 1)

\* Number of Unicode code points of s (utf8.RuneCountInString).
RuneCount(s) == Len(RangeOver(s))

\* The UTF-8 bytes of one code point, as the shell hands them to -text.
EncodeRune(r) ==
  IF r < 128 THEN <<r>>
  ELSE IF r < 2048 THEN <<192 + (r \div 64), 128 + (r % 64)>>
  ELSE IF r < 65536
       THEN <<224 + (r \div 4096), 128 + ((r \div 64) % 64), 128 + (r % 64)>>
  ELSE <<240 + (r \div 262144), 128 + ((r \div 4096) % 64),
         128 + ((r \div 64) % 64), 128 + (r % 64)>>

RECURSIVE EncodeString(_)
EncodeString(cs) ==
  IF cs = <<>> THEN <<>> ELSE EncodeRune(Head(cs)) \o EncodeString(Tail(cs))

\* The values of -text: the strings of at most MaxLen characters, as bytes.
Texts == {EncodeString(cs) : cs \in SeqsUpTo(TextChars, MaxLen)}

\* ------------------------------------------------------------------ images
\* image.Rect: a rectangle is well formed, Min <= Max on both axes.
Rect(x0, y0, x1, y1) ==
  [MinX |-> IF x0 > x1 THEN x1 ELSE x0, MinY |-> IF y0 > y1 THEN y1 ELSE y0,
   MaxX |-> IF x0 > x1 THEN x0 ELSE x1, MaxY |-> IF y0 > y1 THEN y0 ELSE y1]

Dx(r) == r.MaxX - r.MinX
Dy(r) == r.MaxY - r.MinY

\* The pixels of a rectangle, as <<x, y>>.
Points(r) == (r.MinX .. r.MaxX - 1) \X (r.MinY .. r.MaxY - 1)

NilImage == [Rect |-> Rect(0, 0, 0, 0), Pix |-> [p \in {} |-> "White"]]

\* getColors: the palette selected by -whiteonblack.
getColors(whiteOnBlack) ==
  IF whiteOnBlack
  THEN [fg |-> "White", bg |-> "Black", ruler |-> "0x444444"]
  ELSE [fg |-> "Black", bg |-> "White", ruler |-> "0xdddddd"]

\* createImage without the lines 90-92 (no fallback for a zero width).
createImage_nofallback(textLen, slotW, imgH, bgc, ruler, showG) ==
  LET r     == Rect(0, 0, textLen * slotW, imgH)
      guide == {p \in Points(r) :
                  /\ showG
                  /\ \E i \in 0 .. textLen - 1 : p[1] = i * slotW
                  /\ p[2] \in 0 .. imgH - 1}
  IN [Rect |-> r,
      Pix  |-> [p \in Points(r) |-> IF p \in guide THEN ruler ELSE bgc]]

\* createImage: canvas of textLen slots (one slot when that product is 0),
\* filled with bg, with a guideline column at x = i*slotW for i < textLen.
\* rgba.Set outside the bounds is a no-op.
createImage(textLen, slotW, imgH, bgc, ruler, showG) ==
  LET width0 == textLen * slotW
      width  == IF width0 = 0 THEN slotW ELSE width0
      r      == Rect(0, 0, width, imgH)
      guide  == {p \in Points(r) :
                   /\ showG
                   /\ \E i \in 0 .. textLen - 1 : p[1] = i * slotW
                   /\ p[2] \in 0 .. imgH - 1}
  IN [Rect |-> r,
      Pix  |-> [p \in Points(r) |-> IF p \in guide THEN ruler ELSE bgc]]

\* main passing the number of code points instead.
mainTextLen_runes(t) == RuneCount(t)

\* The length main passes to createImage: len(*text), the byte length.
mainTextLen(t) == Len(t)

\* freetype.Pt: pixel coordinates to a 26.6 fixed-point point.
Pt(x, y) == [X |-> x * 64, Y |-> y * 64]

\* ------------------------------------------------------------------- state
VARIABLES
  text, slotWidth, imageHeight, showGuidelines, wonb,  \* the flags
  pc,          \* position of main
  f,           \* the parsed font: rune -> glyph, empty before loadFont
  colors,      \* fg, bg, rulerColor of main
  rgba,        \* the canvas
  c,           \* the freetype context: clip, source colour
  k,           \* renderText: 1-based byte index the range loop is at
  attempts,    \* renderText: one record per loop iteration, in order
  logs,        \* what log.Printf / log.Fatalf wrote
  out,         \* the output file: handle state and content
  exitCode     \* exit status once pc = "exit"

vars == <<text, slotWidth, imageHeight, showGuidelines, wonb, pc, f, colors,
          rgba, c, k, attempts, logs, out, exitCode>>

flags == <<text, slotWidth, imageHeight, showGuidelines, wonb>>

\* The runes the range loop yields from the texts of the model.
Runes == TextChars
Fonts == [Runes -> GlyphKinds]

NilFont == [r \in {} |-> 0]
NilColors == [fg |-> "nil", bg |-> "nil", ruler |-> "nil"]
NilContext == [Clip |-> Rect(0, 0, 0, 0), Src |-> "nil"]

Init ==
  /\ text \in Texts
  /\ slotWidth \in Dims
  /\ imageHeight \in Dims
  /\ showGuidelines \in BOOLEAN
  /\ wonb \in BOOLEAN
  /\ pc = "loadFont"
  /\ f = NilFont
  /\ colors = NilColors
  /\ rgba = NilImage
  /\ c = NilContext
  /\ k = 1
  /\ attempts = <<>>
  /\ logs = <<>>
  /\ out = [handle |-> "none", content |-> "none"]
  /\ exitCode = 0

\* log.Fatalf: print, then os.Exit(1).  Deferred calls do not run.
Fatalf(msg) ==
  /\ logs' = Append(logs, msg)
  /\ pc' = "exit"
  /\ exitCode' = 1

\* loadFont that logs a failure and returns instead of exiting.
loadFont_continues ==
  /\ pc = "loadFont"
  /\ \/ logs' = Append(logs, [kind |-> "fatal", what |-> "reading font file", r |-> 0])
     \/ logs' = Append(logs, [kind |-> "fatal", what |-> "parsing font", r |-> 0])
     \/ logs' = logs
  /\ f' \in Fonts
  /\ pc' = "getColors"
  /\ UNCHANGED <<flags, colors, rgba, c, k, attempts, out, exitCode>>

\* loadFont: os.ReadFile fails, truetype.Parse fails, or a font is returned.
loadFont ==
  /\ pc = "loadFont"
  /\ \/ /\ Fatalf([kind |-> "fatal", what |-> "reading font file", r |-> 0])
        /\ f' = f
     \/ /\ Fatalf([kind |-> "fatal", what |-> "parsing font", r |-> 0])
        /\ f' = f
     \/ /\ f' \in Fonts
        /\ pc' = "getColors"
        /\ UNCHANGED <<logs, exitCode>>
  /\ UNCHANGED <<flags, colors, rgba, c, k, attempts, out>>

\* main line 48.
mainGetColors ==
  /\ pc = "getColors"
  /\ colors' = getColors(wonb)
  /\ pc' = "createImage"
  /\ UNCHANGED <<flags, f, rgba, c, k, attempts, logs, out, exitCode>>

\* main line 50.
mainCreateImage ==
  /\ pc = "createImage"
  /\ rgba' = createImage(mainTextLen(text), slotWidth, imageHeight,
                         colors.bg, colors.ruler, showGuidelines)
  /\ pc' = "getFreeTypeContext"
  /\ UNCHANGED <<flags, f, colors, c, k, attempts, logs, out, exitCode>>

\* main line 52: the context clips to the canvas and draws with fg.
getFreeTypeContext ==
  /\ pc = "getFreeTypeContext"
  /\ c' = [Clip |-> rgba.Rect, Src |-> colors.fg]
  /\ pc' = "renderText"
  /\ k' = 1
  /\ UNCHANGED <<flags, f, colors, rgba, attempts, logs, out, exitCode>>

\* The pixels a successful DrawString of a glyph of w whole pixels at pt
\* writes: the glyph's advance box, cut to the clip rectangle.
Ink(pt, w, clip) ==
  {p \in Points(clip) : pt.X \div 64 <= p[1] /\ p[1] < pt.X \div 64 + w}

\* renderStep with `break` in place of `continue` on line 137.
renderStep_breakOnMissing ==
  /\ pc = "renderText"
  /\ k <= Len(text)
  /\ LET d   == DecodeRune(text, k)
         i   == k - 1
         r   == d.r
         g   == f[r]
         glyphWidthPx == GoDiv(g.advance, 64)
         xPos == i * slotWidth + (GoDiv(slotWidth, 2) - GoDiv(glyphWidthPx, 2))
         pt  == Pt(xPos, GoDiv(imageHeight * 2, 3))
         ink == IF g.err THEN {} ELSE Ink(pt, glyphWidthPx, c.Clip)
     IN /\ k' = k + d.size
        /\ IF ~g.ok
           THEN /\ logs' = Append(logs, [kind |-> "warning", what |-> "glyph advance", r |-> r])
                /\ attempts' = Append(attempts,
                     [i |-> i, r |-> r, ok |-> FALSE, w |-> 0, pt |-> Pt(0, 0),
                      err |-> FALSE, ink |-> {}])
                /\ rgba' = rgba
           ELSE /\ logs' = IF g.err
                           THEN Append(logs, [kind |-> "error", what |-> "drawing", r |-> r])
                           ELSE logs
                /\ attempts' = Append(attempts,
                     [i |-> i, r |-> r, ok |-> TRUE, w |-> glyphWidthPx, pt |-> pt,
                      err |-> g.err, ink |-> ink])
                /\ rgba' = [rgba EXCEPT !.Pix =
                             [p \in DOMAIN rgba.Pix |->
                                IF p \in ink THEN c.Src ELSE rgba.Pix[p]]]
  /\ pc' = IF f[DecodeRune(text, k).r].ok THEN "renderText" ELSE "saveImage"
  /\ UNCHANGED <<flags, f, colors, c, out, exitCode>>

\* renderStep that returns from renderText when DrawString fails (line 148).
renderStep_abortOnError ==
  /\ pc = "renderText"
  /\ k <= Len(text)
  /\ LET d   == DecodeRune(text, k)
         i   == k - 1
         r   == d.r
         g   == f[r]
         glyphWidthPx == GoDiv(g.advance, 64)
         xPos == i * slotWidth + (GoDiv(slotWidth, 2) - GoDiv(glyphWidthPx, 2))
         pt  == Pt(xPos, GoDiv(imageHeight * 2, 3))
         ink == IF g.err THEN {} ELSE Ink(pt, glyphWidthPx, c.Clip)
     IN /\ k' = k + d.size
        /\ IF ~g.ok
           THEN /\ logs' = Append(logs, [kind |-> "warning", what |-> "glyph advance", r |-> r])
                /\ attempts' = Append(attempts,
                     [i |-> i, r |-> r, ok |-> FALSE, w |-> 0, pt |-> Pt(0, 0),
                      err |-> FALSE, ink |-> {}])
                /\ rgba' = rgba
           ELSE /\ logs' = IF g.err
                           THEN Append(logs, [kind |-> "error", what |-> "drawing", r |-> r])
                           ELSE logs
                /\ attempts' = Append(attempts,
                     [i |-> i, r |-> r, ok |-> TRUE, w |-> glyphWidthPx, pt |-> pt,
                      err |-> g.err, ink |-> ink])
                /\ rgba' = [rgba EXCEPT !.Pix =
                             [p \in DOMAIN rgba.Pix |->
                                IF p \in ink THEN c.Src ELSE rgba.Pix[p]]]
  /\ pc' = IF f[DecodeRune(text, k).r].err THEN "saveImage" ELSE "renderText"
  /\ UNCHANGED <<flags, f, colors, c, out, exitCode>>

\* One iteration of `for i, r := range text` (lines 133-151).
renderStep ==
  /\ pc = "renderText"
  /\ k <= Len(text)
  /\ LET d   == DecodeRune(text, k)
         i   == k - 1
         r   == d.r
         g   == f[r]
         glyphWidthPx == GoDiv(g.advance, 64)
         xPos == i * slotWidth + (GoDiv(slotWidth, 2) - GoDiv(glyphWidthPx, 2))
         pt  == Pt(xPos, GoDiv(imageHeight * 2, 3))
         ink == IF g.err THEN {} ELSE Ink(pt, glyphWidthPx, c.Clip)
     IN /\ k' = k + d.size
        /\ IF ~g.ok
           THEN /\ logs' = Append(logs, [kind |-> "warning", what |-> "glyph advance", r |-> r])
                /\ attempts' = Append(attempts,
                     [i |-> i, r |-> r, ok |-> FALSE, w |-> 0, pt |-> Pt(0, 0),
                      err |-> FALSE, ink |-> {}])
                /\ rgba' = rgba
           ELSE /\ logs' = IF g.err
                           THEN Append(logs, [kind |-> "error", what |-> "drawing", r |-> r])
                           ELSE logs
                /\ attempts' = Append(attempts,
                     [i |-> i, r |-> r, ok |-> TRUE, w |-> glyphWidthPx, pt |-> pt,
                      err |-> g.err, ink |-> ink])
                /\ rgba' = [rgba EXCEPT !.Pix =
                             [p \in DOMAIN rgba.Pix |->
                                IF p \in ink THEN c.Src ELSE rgba.Pix[p]]]
  /\ pc' = "renderText"
  /\ UNCHANGED <<flags, f, colors, c, out, exitCode>>

\* The range loop is exhausted: renderText returns.
renderReturn ==
  /\ pc = "renderText"
  /\ k > Len(text)
  /\ pc' = "saveImage"
  /\ UNCHANGED <<flags, f, colors, rgba, c, k, attempts, logs, out, exitCode>>

\* saveImage line 155: os.Create creates or truncates, or fails.
saveCreate ==
  /\ pc = "saveImage"
  /\ \/ /\ Fatalf([kind |-> "fatal", what |-> "creating output file", r |-> 0])
        /\ out' = out
     \/ /\ out' = [handle |-> "open", content |-> "empty"]
        /\ pc' = "encode"
        /\ UNCHANGED <<logs, exitCode>>
  /\ UNCHANGED <<flags, f, colors, rgba, c, k, attempts>>

\* saveImage line 162: png.Encode into the buffered writer.  An image with
\* no pixels is refused; a write of the underlying file can fail.  Part of
\* the output may already have left the buffer.
saveEncode ==
  /\ pc = "encode"
  /\ \E partial \in BOOLEAN :
       /\ out' = [out EXCEPT !.content = IF partial THEN "partial" ELSE "empty"]
       /\ \/ Fatalf([kind |-> "fatal", what |-> "encoding PNG", r |-> 0])
          \/ /\ Dx(rgba.Rect) > 0 /\ Dy(rgba.Rect) > 0
             /\ pc' = "flush"
             /\ UNCHANGED <<logs, exitCode>>
  /\ UNCHANGED <<flags, f, colors, rgba, c, k, attempts>>

\* saveImage line 166: bWriter.Flush.
saveFlush ==
  /\ pc = "flush"
  /\ \/ /\ Fatalf([kind |-> "fatal", what |-> "flushing buffer", r |-> 0])
        /\ out' = [out EXCEPT !.content = "partial"]
     \/ /\ out' = [out EXCEPT !.content = "png"]
        /\ pc' = "saveReturn"
        /\ UNCHANGED <<logs, exitCode>>
  /\ UNCHANGED <<flags, f, colors, rgba, c, k, attempts>>

\* saveImage returns normally: the deferred out.Close() runs (line 159).
saveReturn ==
  /\ pc = "saveReturn"
  /\ out' = [out EXCEPT !.handle = "closed"]
  /\ pc' = "mainEnd"
  /\ UNCHANGED <<flags, f, colors, rgba, c, k, attempts, logs, exitCode>>

\* main returns: exit status 0.
mainReturn ==
  /\ pc = "mainEnd"
  /\ pc' = "exit"
  /\ exitCode' = 0
  /\ UNCHANGED <<flags, f, colors, rgba, c, k, attempts, logs, out>>

Next ==
  \/ loadFont
  \/ mainGetColors
  \/ mainCreateImage
  \/ getFreeTypeContext
  \/ renderStep
  \/ renderReturn
  \/ saveCreate
  \/ saveEncode
  \/ saveFlush
  \/ saveReturn
  \/ mainReturn

Spec == Init /\ [][Next]_vars

\* ---------------------------------------------------------------- helpers
\* createImage has returned in this run.
PastCreateImage ==
  \/ pc \in {"getFreeTypeContext", "renderText", "saveImage", "encode",
             "flush", "saveReturn", "mainEnd"}
  \/ pc = "exit" /\ DOMAIN f # {}

\* renderText has returned in this run.
PastRenderText ==
  \/ pc \in {"saveImage", "encode", "flush", "saveReturn", "mainEnd"}
  \/ pc = "exit" /\ DOMAIN f # {}

\* The image writer has started.
Writing == pc \in {"encode", "flush", "saveReturn", "mainEnd"} \/ out.handle # "none"

Logged(what) == \E n \in 1 .. Len(logs) : logs[n].what = what

FontLoadFailed == Logged("reading font file") \/ Logged("parsing font")
SaveFailed ==
  Logged("creating output file") \/ Logged("encoding PNG") \/ Logged("flushing buffer")

ValidDims == slotWidth >= 1 /\ imageHeight >= 1

\* The canvas createImage returned to main, before any glyph was drawn.
PreRender ==
  createImage(mainTextLen(text), slotWidth, imageHeight,
              getColors(wonb).bg, getColors(wonb).ruler, showGuidelines)

\* Pixels written by the glyph draws so far.
Inked == UNION {attempts[n].ink : n \in 1 .. Len(attempts)}

\* Pixels written by the draws of the characters other than the n-th.
InkedByOthers(n) == UNION {attempts[m].ink : m \in (1 .. Len(attempts)) \ {n}}

\* The slot of loop index i.
SlotPixels(i) ==
  {p \in DOMAIN rgba.Pix : i * slotWidth <= p[1] /\ p[1] < (i + 1) * slotWidth}

\* ------------------------------------------------------------------ claims

\* C1: for every text, with n the number of code points of the text and
\* slotWidth >= 1, the canvas createImage builds for main is n*slotWidth wide
\* when n > 0 and slotWidth wide when n = 0.
C1_WidthByCodePoints ==
  (PastCreateImage /\ ValidDims) =>
     Dx(rgba.Rect) = IF RuneCount(text) > 0 THEN RuneCount(text) * slotWidth
                     ELSE slotWidth

\* C2: every character whose advance lookup succeeds is drawn at
\* x = i*s + (s/2 - w/2), y = imageHeight*2/3, where i is the character's
\* index counted in code points; x depends on i, s and w only.
C2_DrawPointByCodePointIndex ==
  ValidDims =>
    \A n \in 1 .. Len(attempts) :
      attempts[n].ok =>
        attempts[n].pt =
          Pt((n - 1) * slotWidth
               + (GoDiv(slotWidth, 2) - GoDiv(attempts[n].w, 2)),
             GoDiv(imageHeight * 2, 3))

\* C3: after createImage and before any glyph is drawn, with n the character
\* count of the text: with guidelines the pixels of the columns i*slotWidth,
\* i < n, have the guideline colour and every other pixel the background
\* colour; without guidelines every pixel has the background colour.  After
\* the render every pixel that no glyph draw and no guideline wrote still has
\* the background colour.
C3_CanvasByCharacterCount ==
  ValidDims =>
    LET n == RuneCount(text)
        isGuide(p) == showGuidelines /\ \E i \in 0 .. n - 1 : p[1] = i * slotWidth
    IN /\ pc = "getFreeTypeContext" =>
            \A p \in DOMAIN rgba.Pix :
              rgba.Pix[p] = IF isGuide(p) THEN colors.ruler ELSE colors.bg
       /\ PastRenderText =>
            \A p \in DOMAIN rgba.Pix :
              (p \notin Inked /\ ~isGuide(p)) => rgba.Pix[p] = colors.bg

\* What C4 says of a run apart from the pixels of the blank slot: a missing
\* glyph is logged as a warning naming the code point, no draw is issued for
\* it, every character of the text is still processed at the slot of its own
\* loop index, and the run exits 0 with the image written unless the image
\* writer itself fails.
MissingGlyphRecoverable ==
  /\ \A n \in 1 .. Len(attempts) :
       /\ ~attempts[n].ok =>
            /\ attempts[n].ink = {}
            /\ \E m \in 1 .. Len(logs) :
                 logs[m] = [kind |-> "warning", what |-> "glyph advance",
                            r |-> attempts[n].r]
       /\ attempts[n].i = RangeOver(text)[n].i
       /\ attempts[n].ok =>
            attempts[n].pt.X =
              64 * (attempts[n].i * slotWidth
                      + (GoDiv(slotWidth, 2) - GoDiv(attempts[n].w, 2)))
  /\ PastRenderText => Len(attempts) = RuneCount(text)
  /\ (pc = "exit" /\ ~FontLoadFailed /\ ~SaveFailed) =>
       exitCode = 0 /\ out.content = "png"

C5_FontFailureNoOutput ==
  FontLoadFailed =>
    /\ pc = "exit" /\ exitCode = 1
    /\ out = [handle |-> "none", content |-> "none"]
    /\ rgba = NilImage
    /\ attempts = <<>>

C5_Witness == pc = "exit" /\ Logged("parsing font") /\ text # <<>>

\* C6: on every fatal path of saveImage after the file was opened, the file
\* handle is closed before the process exits; no run ends with it open.
C6_ClosedOnFatalPath ==
  (pc = "exit" /\ ValidDims) => out.handle # "open"

\* C7: for the empty text, slotWidth >= 1, height >= 1 and any guidelines
\* and whiteonblack flags: the canvas is slotWidth x height, every pixel has
\* the background colour, the rasterizer is never invoked, and the run
\* exits 0 with the image written unless font loading or the writer fails.
C7_EmptyText ==
  (text = <<>> /\ ValidDims) =>
    /\ attempts = <<>>
    /\ PastCreateImage =>
         /\ DOMAIN rgba.Pix = (0 .. slotWidth - 1) \X (0 .. imageHeight - 1)
         /\ Dx(rgba.Rect) = slotWidth /\ Dy(rgba.Rect) = imageHeight
         /\ \A p \in DOMAIN rgba.Pix : rgba.Pix[p] = getColors(wonb).bg
    /\ (pc = "exit" /\ ~FontLoadFailed /\ ~SaveFailed) =>
         exitCode = 0 /\ out.content = "png"

C7_Witness ==
  /\ text = <<>> /\ ValidDims /\ showGuidelines /\ wonb
  /\ pc = "exit" /\ exitCode = 0 /\ out.content = "png"

\* C8: every canvas built is at least 1 x 1: a slotwidth or height of 0 or
\* less is rejected before createImage, so no run reaches canvas
\* construction, rendering or file writing with such a dimension.
C8_DegenerateRejected ==
  PastCreateImage =>
    /\ ValidDims
    /\ Dx(rgba.Rect) >= 1 /\ Dy(rgba.Rect) >= 1

\* C9, the state part: the characters attempted so far are the first
\* characters of the text, each once and in input order, whatever their
\* outcome; a rasterization error is logged; once renderText has returned
\* every character has been attempted.
AttemptsInOrder ==
  /\ Len(attempts) <= RuneCount(text)
  /\ \A n \in 1 .. Len(attempts) :
       /\ attempts[n].i = RangeOver(text)[n].i
       /\ attempts[n].r = RangeOver(text)[n].r
       /\ attempts[n].err =>
            \E m \in 1 .. Len(logs) :
              logs[m] = [kind |-> "error", what |-> "drawing", r |-> attempts[n].r]
  /\ PastRenderText => Len(attempts) = RuneCount(text)
  /\ Writing => PastRenderText

\* C9, the step part: an iteration of the loop is followed by the loop, never
\* by an exit, and nothing changes the canvas once the writer has started.
RenderNeverAborts ==
  /\ (pc = "renderText" /\ k <= Len(text)) =>
        (pc' = "renderText" /\ Len(attempts') = Len(attempts) + 1)
  /\ (PastRenderText \/ Writing) => rgba' = rgba

\* C9: in every run that loads the font each character is attempted exactly
\* once, in input order, whatever happened to earlier characters; a
\* rasterization error never aborts the loop or the run; the writer starts
\* after the last attempt and the canvas is not modified from then on.
C9_EachCharacterOnceInOrder ==
  []AttemptsInOrder /\ [][RenderNeverAborts]_vars

\* The writer has started after a rasterization error on the first of
\* several characters.
C9_Witness ==
  /\ out.handle = "open"
  /\ Len(attempts) >= 2
  /\ attempts[1].err
  /\ attempts[2].ink # {}

\* C10: with slotWidth >= 1, the slot of every character renderText
\* processes and of every guideline createImage draws lies inside the canvas
\* built for the same text: 0 <= i*slotWidth and (i+1)*slotWidth <= width.
C10_SlotsInsideCanvas ==
  (PastCreateImage /\ slotWidth >= 1) =>
    /\ rgba.Rect.MinX = 0
    /\ \A n \in 1 .. Len(attempts) :
         /\ 0 <= attempts[n].i * slotWidth
         /\ (attempts[n].i + 1) * slotWidth <= rgba.Rect.MaxX
    /\ showGuidelines =>
         \A i \in 0 .. mainTextLen(text) - 1 :
           0 <= i * slotWidth /\ (i + 1) * slotWidth <= rgba.Rect.MaxX

\* A character after a two-byte character has been processed.
C10_Witness ==
  /\ slotWidth >= 1 /\ showGuidelines
  /\ \E n \in 1 .. Len(attempts) : attempts[n].i > n - 1

====
